---------------------------- MODULE Spec2Model ----------------------------
(***************************************************************************)
(* A model of 0x00-personal_data/filtered_logger.py: the log redactor      *)
(* filter_datum, the RedactingFormatter that applies it to every rendered  *)
(* record, the 'user_data' logger built by get_logger, and main.           *)
(*                                                                         *)
(* A Python str is a sequence of one-character strings.  The pattern that  *)
(* filter_datum builds is interpreted as the re module interprets it, for  *)
(* field names over letters and the metacharacters '.', '*' and '|', for   *)
(* a one-character separator other than '\', ']' and '^', and for a        *)
(* redaction without a backslash.                                          *)
(***************************************************************************)
EXTENDS Integers, Sequences, FiniteSets, TLC

VARIABLES
    fields,      \* filter_datum's argument fields
    redaction,   \* filter_datum's argument redaction
    message,     \* filter_datum's argument message
    separator,   \* filter_datum's argument separator
    ret,         \* what the call of filter_datum did: [raised, value]
    ret2,        \* what filter_datum did when run again over ret.value
    fpc,         \* position of the caller of filter_datum
    selfFields,  \* RedactingFormatter.fields
    record,      \* the LogRecord handed to RedactingFormatter.format
    txt,         \* what RedactingFormatter.format did: [raised, value]
    handlers,    \* the handlers of the 'user_data' logger, one formatter's fields each
    pc,          \* position in main
    connection,  \* main's local variable connection
    rows,        \* the rows main has still to log
    stream,      \* what the handlers wrote, as [level, handler, line] records
    lastCall,    \* the number of lines that the latest log call wrote
    dbFailed     \* get_db raised in this run of main

vars == <<fields, redaction, message, separator, ret, ret2, fpc, selfFields,
          record, txt, handlers, pc, connection, rows, stream, lastCall, dbFailed>>

filterVars == <<fields, redaction, message, separator, ret, ret2, fpc>>
formatVars == <<selfFields, record, txt>>
mainVars   == <<handlers, pc, connection, rows, stream, lastCall, dbFailed>>

-----------------------------------------------------------------------------
(* Strings *)

RECURSIVE Flatten(_)
Flatten(ss) == IF ss = <<>> THEN <<>> ELSE Head(ss) \o Flatten(Tail(ss))

\* sep.join(parts)
RECURSIVE Join(_, _)
Join(parts, sep) ==
    IF parts = <<>> THEN <<>>
    ELSE IF Len(parts) = 1 THEN parts[1]
    ELSE parts[1] \o sep \o Join(Tail(parts), sep)

Min(S) == CHOOSE x \in S : \A y \in S : x <= y

\* s.split(c) for a one-character c: the pieces between the places of c
Split(s, c) ==
    LET at     == {i \in DOMAIN s : s[i] = c}
        nth(k) == IF k = 0 THEN 0
                  ELSE IF k > Cardinality(at) THEN Len(s) + 1
                  ELSE CHOOSE i \in at : Cardinality({j \in at : j < i}) = k - 1
    IN  [k \in 1..(Cardinality(at) + 1) |-> SubSeq(s, nth(k - 1) + 1, nth(k) - 1)]

Range(s) == {s[i] : i \in DOMAIN s}

\* sub in s
Occurs(sub, s) ==
    \E i \in 0..(Len(s) - Len(sub)) : SubSeq(s, i + 1, i + Len(sub)) = sub

-----------------------------------------------------------------------------
(* patterns['extract'] and patterns['replace'], as re compiles and runs them *)

Raised == [raised |-> TRUE, value |-> <<>>]
Returned(s) == [raised |-> FALSE, value |-> s]

\* One alternative of the group (?P<field>...), parsed into atoms: a literal
\* or '.', possibly repeated by '*'.  A '*' with nothing to repeat, or after
\* another '*', is re.error.
RECURSIVE ParseAtoms(_, _, _)
ParseAtoms(alt, i, acc) ==
    IF i > Len(alt) THEN [raised |-> FALSE, atoms |-> acc]
    ELSE IF alt[i] = "*"
         THEN IF acc = <<>> \/ acc[Len(acc)].star
              THEN [raised |-> TRUE, atoms |-> <<>>]
              ELSE ParseAtoms(alt, i + 1,
                       [acc EXCEPT ![Len(acc)] = [@ EXCEPT !.star = TRUE]])
         ELSE ParseAtoms(alt, i + 1,
                  Append(acc, [ch |-> alt[i], any |-> alt[i] = ".", star |-> FALSE]))

\* '|'.join(fields), read back by re as the alternatives of one group
Alternatives(fs) == Split(Join(fs, <<"|">>), "|")

\* re.compile(extract(fields, separator))
Extract(fs, sep) ==
    LET alts   == Alternatives(fs)
        parsed == [k \in DOMAIN alts |-> ParseAtoms(alts[k], 1, <<>>)]
    IN  IF \E k \in DOMAIN parsed : parsed[k].raised
        THEN [raised |-> TRUE, alts |-> <<>>, sep |-> sep]
        ELSE [raised |-> FALSE, alts |-> [k \in DOMAIN parsed |-> parsed[k].atoms],
              sep |-> sep]

AtomMatches(a, c) == a.any \/ a.ch = c

\* The positions where atoms[i..] can end when started at pos, in the order
\* in which the backtracking matcher tries them ('*' is greedy).
RECURSIVE Ends(_, _, _, _)
Ends(atoms, i, s, pos) ==
    IF i > Len(atoms) THEN <<pos>>
    ELSE LET a    == atoms[i]
             here == pos <= Len(s) /\ AtomMatches(a, s[pos])
         IN  IF a.star
             THEN (IF here THEN Ends(atoms, i, s, pos + 1) ELSE <<>>)
                  \o Ends(atoms, i + 1, s, pos)
             ELSE IF here THEN Ends(atoms, i + 1, s, pos + 1) ELSE <<>>

\* The ends of the group at pos, over its alternatives in order
GroupEnds(alts, s, pos) ==
    Flatten([k \in DOMAIN alts |-> Ends(alts[k], 1, s, pos)])

\* The first end of the group that is followed by '=' (0: no match at pos)
FieldEnd(alts, s, pos) ==
    LET es == GroupEnds(alts, s, pos)
        ok == {k \in DOMAIN es : es[k] <= Len(s) /\ s[es[k]] = "="}
    IN  IF ok = {} THEN 0
        ELSE es[CHOOSE k \in ok : \A j \in ok : k <= j]

\* A lazy value, [^sep]*?, which matches nothing
ValueEndLazy(s, sep, pos) == pos

\* [^sep]* from pos: the first position at or after pos that holds sep, or
\* the end of the string
ValueEnd(s, sep, pos) ==
    LET stops == {p \in pos..Len(s) : s[p] = sep}
    IN  IF stops = {} THEN Len(s) + 1 ELSE Min(stops)

\* replace(redaction), expanded for a match whose group is field
Replace(field, red) == field \o <<"=">> \o red

\* re.sub(pattern, repl, s) from pos on: the text up to the leftmost match
\* is copied, the match is replaced, and the search goes on after it
RECURSIVE Sub(_, _, _, _)
Sub(pat, red, s, pos) ==
    LET starts == {p \in pos..Len(s) : FieldEnd(pat.alts, s, p) # 0}
    IN  IF starts = {} THEN SubSeq(s, pos, Len(s))
        ELSE LET p == Min(starts)
                 e == FieldEnd(pat.alts, s, p)
             IN  SubSeq(s, pos, p - 1)
                 \o Replace(SubSeq(s, p, e - 1), red)
                 \o Sub(pat, red, s, ValueEnd(s, pat.sep, e + 1))

filter_datum(fs, red, msg, sep) ==
    LET pat == Extract(fs, sep)
    IN  IF pat.raised THEN Raised ELSE Returned(Sub(pat, red, msg, 1))

-----------------------------------------------------------------------------
(* The inputs of the calls of filter_datum *)

MaxSegs == 2

n_a_m_e == <<"n","a","m","e">>
e_m_a_i_l == <<"e","m","a","i","l">>
p_h_o_n_e == <<"p","h","o","n","e">>
s_s_n == <<"s","s","n">>
p_a_s_s_w_o_r_d == <<"p","a","s","s","w","o","r","d">>
u_s_e_r_n_a_m_e == <<"u","s","e","r">> \o n_a_m_e
i_p == <<"i","p">>

PII_FIELDS == <<n_a_m_e, e_m_a_i_l, p_h_o_n_e, s_s_n, p_a_s_s_w_o_r_d>>

\* Field lists: empty, plain names, and names that hold '.', '*' or '|'
FieldLists ==
    { <<>>,
      <<n_a_m_e>>,
      <<n_a_m_e, i_p>>,
      <<u_s_e_r_n_a_m_e, n_a_m_e>>,
      <<<<"n","a",".","e">>>>,
      <<<<"u","s","*","e","r","n","*","a","m","e">>, i_p>>,
      <<<<"i","p","|","n","a","m","e">>>>,
      <<<<"*">>>>,
      <<n_a_m_e \o <<".",".",".",".",".">> \o i_p, n_a_m_e>> }

Separators == {";", ","}

Tokens == { <<"*","*","*">>, <<";">>, <<"x","=">> }

SegNames == {n_a_m_e, u_s_e_r_n_a_m_e, i_p}
SegValues == {<<>>, <<"b","o">>}
Segments == {nm \o <<"=">> \o v : nm \in SegNames, v \in SegValues}

\* A few strings that are not made of segments
RawMessages == { <<"=">>, <<"=","=","b">>, <<"n","a","m","e">>, <<"e","=",";","=">> }

SegLists == UNION {[1..k -> Segments] : k \in 0..MaxSegs}

\* The messages made of field=value segments joined by sep, with or without
\* a trailing sep, and the raw ones
Messages(sep) ==
    {Join(segs, <<sep>>) \o tl : segs \in SegLists, tl \in {<<>>, <<sep>>}}
    \cup RawMessages

NoCall == Returned(<<>>)

InitFilter ==
    /\ fields \in FieldLists
    /\ redaction \in Tokens
    /\ separator \in Separators
    /\ message \in Messages(separator)
    /\ ret = NoCall
    /\ ret2 = NoCall
    /\ fpc = "args"

\* r = filter_datum(fields, redaction, message, separator)
CallFilterDatum ==
    /\ fpc = "args"
    /\ ret' = filter_datum(fields, redaction, message, separator)
    /\ fpc' = IF ret'.raised THEN "raised" ELSE "returned"
    /\ UNCHANGED <<fields, redaction, message, separator, ret2>>
    /\ UNCHANGED <<formatVars, mainVars>>

\* filter_datum(fields, redaction, r, separator): the redactor run over its
\* own output
CallFilterDatumAgain ==
    /\ fpc = "returned"
    /\ ret2' = filter_datum(fields, redaction, ret.value, separator)
    /\ fpc' = IF ret2'.raised THEN "raised" ELSE "returned2"
    /\ UNCHANGED <<fields, redaction, message, separator, ret>>
    /\ UNCHANGED <<formatVars, mainVars>>


NextFilter == CallFilterDatum \/ CallFilterDatumAgain

-----------------------------------------------------------------------------
(* RedactingFormatter *)

REDACTION == <<"*","*","*">>
SEPARATOR == ";"
HOLBERTON == <<"[","H","O","L","B","E","R","T","O","N","]">>
AsctimeWidth == 15

RECURSIVE Spaces(_)
Spaces(k) == IF k <= 0 THEN <<>> ELSE <<" ">> \o Spaces(k - 1)

\* '%-15s' % s
LeftJustify(s, width) == s \o Spaces(width - Len(s))

\* logging.Formatter.format with
\* FORMAT = "[HOLBERTON] %(name)s %(levelname)s %(asctime)-15s: %(message)s"
Envelope(rec) ==
    HOLBERTON \o <<" ">> \o rec.name \o <<" ">> \o rec.levelname \o <<" ">>
        \o LeftJustify(rec.asctime, AsctimeWidth) \o <<":", " ">>

Formatter_format(rec) == Envelope(rec) \o rec.msg

\* A format that returns msg, the rendered record, instead of txt
FormatUnfiltered(fs, rec) == Returned(Formatter_format(rec))

\* RedactingFormatter.format
RedactingFormatter_format(fs, rec) ==
    filter_datum(fs, REDACTION, Formatter_format(rec), SEPARATOR)

user_data == <<"u","s","e","r","_","d","a","t","a">>
INFO == <<"I","N","F","O">>
ERROR == <<"E","R","R","O","R">>
\* The time of every record of the model, as asctime renders it
Asctime == <<"2","0","2","4","-","0","1","-","0","1"," ","0","0",":","0","0",":","0","0",",","0","0","0">>

l_a_s_t_l_o_g_i_n == <<"l","a","s","t","_","l","o","g","i","n">>
u_s_e_r_a_g_e_n_t == <<"u","s","e","r","_","a","g","e","n","t">>

LogNames == {n_a_m_e, u_s_e_r_n_a_m_e, p_a_s_s_w_o_r_d, i_p}
LogValues == {<<"b","o">>, <<"a","l">>}
LogSegments == {nm \o <<"=">> \o v : nm \in LogNames, v \in LogValues}
LogSegLists == UNION {[1..k -> LogSegments] : k \in 0..MaxSegs}

\* Messages as main builds them, '{};'.format('; '.join(record)), and the
\* same joined by ';' alone
LogMessages ==
    {Join(segs, j) \o <<";">> : segs \in LogSegLists, j \in {<<";">>, <<";", " ">>}}

FormatterFields == {PII_FIELDS, <<p_a_s_s_w_o_r_d, i_p>>, <<>>}

NoRecord == [name |-> <<>>, levelname |-> <<>>, asctime |-> <<>>, msg |-> <<>>]

IdleFilter ==
    /\ fields = <<>> /\ redaction = <<>> /\ message = <<>> /\ separator = SEPARATOR
    /\ ret = NoCall /\ ret2 = NoCall /\ fpc = "idle"

IdleFormat ==
    /\ selfFields = PII_FIELDS /\ record = NoRecord /\ txt = NoCall

\* RedactingFormatter(fields), and a record about to be formatted
InitFormat ==
    /\ selfFields \in FormatterFields
    /\ record \in [name : {user_data}, levelname : {INFO, ERROR},
                   asctime : {Asctime}, msg : LogMessages]
    /\ txt = NoCall

\* txt = formatter.format(record)
Format ==
    /\ txt = NoCall
    /\ txt' = RedactingFormatter_format(selfFields, record)
    /\ UNCHANGED <<selfFields, record>>
    /\ UNCHANGED <<filterVars, mainVars>>

NextFormat == Format


-----------------------------------------------------------------------------
(* get_logger, get_db and main *)

MaxRows == 2
MaxGetLogger == 2

\* fields.split(',') in main
columns == <<n_a_m_e, e_m_a_i_l, p_h_o_n_e, s_s_n, p_a_s_s_w_o_r_d, i_p,
             l_a_s_t_l_o_g_i_n, u_s_e_r_a_g_e_n_t>>

\* Rows of the users table, each value as the text that an f-string makes
\* of it
TableRows ==
    { << <<"b","o">>, <<"b","@","x">>, <<"5","5","5">>, <<"1">>, <<"p","w">>,
         <<"1",".","2">>, <<"2","0","2","4">>, <<"M","o","z">> >>,
      << <<"a","l">>, <<>>, <<"5","5","5">>, <<"2">>, <<"*">>,
         <<"1",".","2">>, <<"2","0","2","4">>, <<"b","o">> >> }

FetchResults == UNION {[1..k -> TableRows] : k \in 0..MaxRows}

\* msg = '{};'.format('; '.join(f"{column}={value}" ...)) for one row
RowMessage(row) ==
    Join([k \in DOMAIN columns |-> columns[k] \o <<"=">> \o row[k]], <<";", " ">>)
        \o <<";">>

\* f"Error connecting to the database: {e}"
ErrorMessage == <<"E","r","r","o","r"," ","c","o","n","n","e","c","t","i","n","g"," ","t","o"," ","t","h","e"," ","d","a","t","a","b","a","s","e",":"," ","r","e","f","u","s","e","d">>

LogRecord(level, msg) ==
    [name |-> user_data, levelname |-> level, asctime |-> Asctime, msg |-> msg]

\* Logger.info / Logger.error on the 'user_data' logger (level INFO,
\* propagate False): every handler formats the record with its formatter
\* and writes the line to its stream
Emit(level, msg) ==
    [h \in DOMAIN handlers |->
        [level |-> level,
         line  |-> RedactingFormatter_format(handlers[h], LogRecord(level, msg)).value]]

Log(level, msg) ==
    /\ stream' = stream \o Emit(level, msg)
    /\ lastCall' = Len(handlers)

\* main without its try statement: it goes on into the with block whatever
\* get_db did
AfterGetDbUnguarded(outcome) == "cursor"

\* Where main goes on after get_db: into the with block, into the except
\* clause for a mysql.connector.Error, and to the finally clause with any
\* other exception
AfterGetDb(outcome) ==
    CASE outcome = "ok"          -> "cursor"
      [] outcome = "mysql_error" -> "except"
      [] OTHER                   -> "finally"

IdleMain ==
    /\ handlers = <<>> /\ pc = "idle" /\ connection = "unbound" /\ rows = <<>>
    /\ stream = <<>> /\ lastCall = 0 /\ dbFailed = FALSE

InitMain ==
    /\ handlers = <<>>
    /\ pc = "start"
    /\ connection = "unbound"
    /\ rows = <<>>
    /\ stream = <<>>
    /\ lastCall = 0
    /\ dbFailed = FALSE

\* get_logger(): a new StreamHandler with a RedactingFormatter(PII_FIELDS)
\* is added to the one logger that logging.getLogger("user_data") returns
get_logger == handlers' = Append(handlers, PII_FIELDS)

\* A call of get_logger by the importing program, before it calls main
CallGetLogger ==
    /\ pc = "start"
    /\ Len(handlers) < MaxGetLogger
    /\ get_logger
    /\ UNCHANGED <<pc, connection, rows, stream, lastCall, dbFailed, filterVars, formatVars>>

\* main, line 75: info_logger = get_logger()
MainGetLogger ==
    /\ pc = "start"
    /\ get_logger
    /\ pc' = "try"
    /\ UNCHANGED <<connection, rows, stream, lastCall, dbFailed, filterVars, formatVars>>

\* main, line 79: connection = get_db()
MainGetDb ==
    /\ pc = "try"
    /\ \E outcome \in {"ok", "mysql_error", "other_error"} :
        /\ pc' = AfterGetDb(outcome)
        /\ connection' = IF outcome = "ok" THEN "open" ELSE connection
        /\ dbFailed' = (outcome # "ok")
    /\ UNCHANGED <<handlers, rows, stream, lastCall, filterVars, formatVars>>

\* main, lines 80-82: the cursor, the query and fetchall, which may raise a
\* mysql.connector.Error
MainFetch ==
    /\ pc = "cursor"
    /\ \/ /\ rows' \in FetchResults
          /\ pc' = "loop"
       \/ /\ rows' = rows
          /\ pc' = "except"
    /\ UNCHANGED <<handlers, connection, stream, lastCall, dbFailed, filterVars, formatVars>>

\* main, lines 85-90: one row is logged
MainLogRow ==
    /\ pc = "loop"
    /\ rows # <<>>
    /\ Log(INFO, RowMessage(Head(rows)))
    /\ rows' = Tail(rows)
    /\ UNCHANGED <<handlers, pc, connection, dbFailed, filterVars, formatVars>>

\* main: the loop and the with block end
MainLoopEnd ==
    /\ pc = "loop"
    /\ rows = <<>>
    /\ pc' = "finally"
    /\ UNCHANGED <<handlers, connection, rows, stream, lastCall, dbFailed, filterVars, formatVars>>

\* main, lines 91-92: the except clause logs the error
MainExcept ==
    /\ pc = "except"
    /\ Log(ERROR, ErrorMessage)
    /\ pc' = "finally"
    /\ UNCHANGED <<handlers, connection, rows, dbFailed, filterVars, formatVars>>

\* main, lines 93-95: the finally clause; connection is unbound when get_db
\* raised, and reading it raises UnboundLocalError
MainFinally ==
    /\ pc = "finally"
    /\ \/ /\ connection = "unbound"
          /\ pc' = "crashed"
          /\ connection' = connection
       \/ /\ connection = "open"
          /\ \E is_connected \in BOOLEAN :
                connection' = IF is_connected THEN "closed" ELSE connection
          /\ pc' = "done"
    /\ UNCHANGED <<handlers, rows, stream, lastCall, dbFailed, filterVars, formatVars>>

Init == IdleFilter /\ IdleFormat /\ InitMain

FilterInit == InitFilter /\ IdleFormat /\ IdleMain

FormatInit == IdleFilter /\ InitFormat /\ IdleMain

Next ==
    \/ CallGetLogger
    \/ MainGetLogger
    \/ MainGetDb
    \/ MainFetch
    \/ MainLogRow
    \/ MainLoopEnd
    \/ MainExcept
    \/ MainFinally

Spec == Init /\ [][Next]_vars

SpecFilter == FilterInit /\ [][NextFilter]_vars

SpecFormat == FormatInit /\ [][NextFormat]_vars

-----------------------------------------------------------------------------
(* Reading a message as field=value segments *)

Pieces(msg, sep) == Split(msg, sep)

\* The field name of a segment: the text before its first '='
SegName(seg) == Split(seg, "=")[1]

IsSegment(piece) == "=" \in Range(piece)

\* msg is field=value segments joined by sep (an empty piece is what a
\* trailing or doubled sep leaves)
WellFormed(msg, sep) ==
    \A k \in DOMAIN Pieces(msg, sep) :
        Pieces(msg, sep)[k] = <<>> \/ IsSegment(Pieces(msg, sep)[k])

\* msg with the value of every segment whose field name is in fs replaced
\* by red, and the rest as it was
Redacted(fs, red, msg, sep) ==
    LET ps == Pieces(msg, sep)
    IN  Join([k \in DOMAIN ps |->
                 IF IsSegment(ps[k]) /\ SegName(ps[k]) \in Range(fs)
                 THEN SegName(ps[k]) \o <<"=">> \o red
                 ELSE ps[k]],
             <<sep>>)

\* msg is one or more segments, each with a field name
NamedSegments(msg, sep) ==
    /\ WellFormed(msg, sep)
    /\ \E k \in DOMAIN Pieces(msg, sep) : IsSegment(Pieces(msg, sep)[k])
    /\ \A k \in DOMAIN Pieces(msg, sep) :
           IsSegment(Pieces(msg, sep)[k]) => SegName(Pieces(msg, sep)[k]) # <<>>

IsProperSuffix(f, nm) ==
    Len(f) < Len(nm) /\ SubSeq(nm, Len(nm) - Len(f) + 1, Len(nm)) = f

\* A name with no '=' and none of the metacharacters
PlainName(f) == Range(f) \cap {"=", ".", "*", "|"} = {}

PlainFields(fs) == \A k \in DOMAIN fs : PlainName(fs[k])

Called == fpc # "args"

-----------------------------------------------------------------------------
(* Claims about filter_datum, checked under SpecFilter *)

\* C1: for a message made of field=value segments joined by the separator,
\* filter_datum returns the same segments in the same order, the value of
\* each segment whose field name is in the list replaced by the token, an
\* empty value and a last segment without separator included.
C1_SegmentsRedacted ==
    (Called /\ NamedSegments(message, separator))
        => ret = Returned(Redacted(fields, redaction, message, separator))

\* C2: with a list of plain names, a message none of whose segments has a
\* listed field name (though a name may end with a listed one, as username
\* ends with name) is returned unchanged.
C2_ExactNameOnly ==
    (/\ Called
     /\ NamedSegments(message, separator)
     /\ fields # <<>>
     /\ PlainFields(fields)
     /\ \A k \in DOMAIN Pieces(message, separator) :
            SegName(Pieces(message, separator)[k]) \notin Range(fields))
        => ret = Returned(message)

\* C3: with an empty field list filter_datum returns the message unchanged,
\* a message of field=value segments like any other.
C3_EmptyFieldsNoOp ==
    (Called /\ fields = <<>> /\ NamedSegments(message, separator))
        => ret = Returned(message)

C7_NeverRaises ==
    Called => (~ret.raised /\ ~ret2.raised)

\* C8: field names are matched character for character: for a message none
\* of whose segment names merely ends with a listed name, exactly the
\* segments whose field name equals a listed name are redacted by a call
\* that returns, the listed names that hold '.', '|' or '*' like the others.
C8_LiteralNames ==
    (/\ Called
     /\ ~ret.raised
     /\ NamedSegments(message, separator)
     /\ fields # <<>>
     /\ \A k \in DOMAIN Pieces(message, separator), j \in DOMAIN fields :
            ~IsProperSuffix(fields[j], SegName(Pieces(message, separator)[k])))
        => ret = Returned(Redacted(fields, redaction, message, separator))


-----------------------------------------------------------------------------
(* Claims about RedactingFormatter.format, checked under SpecFormat *)

Formatted == txt # NoCall

\* A piece without its leading spaces, and those spaces
LStrip(piece) ==
    LET solid == {i \in DOMAIN piece : piece[i] # " "}
    IN  IF solid = {} THEN <<>> ELSE SubSeq(piece, Min(solid), Len(piece))

Lead(piece) == SubSeq(piece, 1, Len(piece) - Len(LStrip(piece)))

\* The text from pos up to the next c, or to the end
UpTo(s, c, pos) ==
    LET stops == {i \in pos..Len(s) : s[i] = c}
    IN  SubSeq(s, pos, IF stops = {} THEN Len(s) ELSE Min(stops) - 1)

\* The segments of the record's message whose field is configured
ConfiguredSegments ==
    LET segs == {LStrip(Pieces(record.msg, SEPARATOR)[k]) :
                    k \in DOMAIN Pieces(record.msg, SEPARATOR)}
    IN  {seg \in segs : IsSegment(seg) /\ SegName(seg) \in Range(selfFields)}

\* The value of a segment: the text after its first '='
SegValue(seg) == SubSeq(seg, Len(SegName(seg)) + 2, Len(seg))

\* msg with the value of every segment whose field is configured replaced
\* by '***', and every other character as it was
RedactedLog(fs, msg) ==
    LET ps == Pieces(msg, SEPARATOR)
    IN  Join([k \in DOMAIN ps |->
                 IF IsSegment(ps[k]) /\ SegName(LStrip(ps[k])) \in Range(fs)
                 THEN Lead(ps[k]) \o SegName(LStrip(ps[k])) \o <<"=">> \o REDACTION
                 ELSE ps[k]],
             <<SEPARATOR>>)

\* C5 as claimed: the string that format returns holds no occurrence of the
\* original value of any configured field of the record's message.
C5_NoOriginalValue ==
    Formatted =>
        \A seg \in ConfiguredSegments :
            SegValue(seg) # <<>> => ~Occurs(SegValue(seg), txt.value)

\* C5 as amended: in the string that format returns, every occurrence of a
\* configured field name followed by '=' is followed by '***' and then by
\* ';' or the end: no segment of a configured field keeps another value.
C5_ConfiguredValuesAreToken ==
    (Formatted /\ PlainFields(selfFields)) =>
        /\ ~txt.raised
        /\ \A f \in Range(selfFields) :
             \A i \in 1..(Len(txt.value) - Len(f)) :
                SubSeq(txt.value, i, i + Len(f)) = f \o <<"=">>
                    => UpTo(txt.value, SEPARATOR, i + Len(f) + 1) = REDACTION

\* C5's case: a record with a configured field of value 'bo' was formatted,
\* and the line holds the field with '***'
C5_Witness ==
    /\ Formatted
    /\ selfFields = PII_FIELDS
    /\ (p_a_s_s_w_o_r_d \o <<"=","b","o">>) \in ConfiguredSegments
    /\ Occurs(p_a_s_s_w_o_r_d \o <<"=">> \o REDACTION \o <<";">>, txt.value)
    /\ ~Occurs(p_a_s_s_w_o_r_d \o <<"=","b">>, txt.value)

\* C6: a formatter with fields returns the rendered envelope and message
\* with the values of the segments of configured fields replaced by '***'
\* and nothing else changed: the prefix, the logger name, the level, the
\* time and every segment of another field are as rendered.
C6_OnlyConfiguredChanged ==
    (Formatted /\ selfFields # <<>>) =>
        txt = Returned(Envelope(record) \o RedactedLog(selfFields, record.msg))

-----------------------------------------------------------------------------
(* Claims about main and get_logger, checked under Spec *)

C10_OneLinePerLogCall ==
    stream # <<>> => lastCall = 1

=============================================================================
